---- MODULE Spec2Model ----
(***************************************************************************)
(* State-machine model of the downloader core of dl.py: the size probe,    *)
(* the range planner, download_chunk with its retry loop, the gather      *)
(* barrier, merge_parts, and the segment-mode list writing and external   *)
(* merge.  One asyncio step (the code between two awaits) is one action.  *)
(***************************************************************************)
EXTENDS Integers, Sequences, FiniteSets, TLC

\* ------------------------------------------------------------------ bounds
\* RETRIES (dl.py:47)
RETRIES == 3
\* largest true length of a served resource, in bytes
MaxTotal == 3
\* largest --mp4-connections value explored
MaxK == 2
\* largest --max-connections value explored
MaxConn == 2
\* largest network chunk iter_chunked delivers (SEGMENT_CHUNK_SIZE, scaled)
MaxChunk == 2
\* read size of merge_parts (FILE_CHUNK_SIZE, scaled)
FileChunk == 2
\* largest number of segments of a media manifest
MaxSegs == 2
\* range-planner sweep (SpecPlan): totals 1..PlanMaxTotal and the spec's example
PlanMaxTotal == 12
PlanMaxK == 5
\* variant selection sweep (SpecSelect): manifests of up to MaxVariants variants
MaxVariants == 3
\* inputs read at the selection prompt in one run
MaxPrompts == 2

VARIABLES
    mode,          \* "mp4" | "hls": source_url.lower().endswith(".mp4")
    mp4_conn,      \* main.mp4_connections
    max_conn,      \* main.max_connections, the connector's limit
    srcLen,        \* environment: true byte length of every served resource
    hasLength,     \* environment: the server sends a content-length header
    honoursRange,  \* environment: the server answers a valid Range with 206
    segments,      \* result of get_segment_urls (segment mode)
    pc,            \* position of main()
    total,         \* main's total
    parts,         \* the unit list: records [s, e, pf, url]
    ustate,        \* per unit: Pending | Fetching | Retrying | Succeeded | Failed
    attempt,       \* per unit: download_chunk's loop variable (0 before the loop)
    phase,         \* per unit, while Fetching: "request" | "body"
    wpos,          \* per unit: offset of its open part-file handle
    acquired,      \* connections the connector has handed out
    files,         \* the output directory: a function from the paths that exist to contents
    completed,     \* the progress task's completed byte count
    doneOrder,     \* history: units in the order their download_chunk returned
    mi,            \* merge_parts: index of the part being copied
    mphase,        \* merge_parts: "open" | "copy"
    rpos,          \* merge_parts: read offset in the current part
    li,            \* list writer: index of the next segment to be written
    proc,          \* the external merge process: "none" | "running" | "exited"
    rc,            \* its exit status, once exited
    merged,        \* the merge progress task's completed value
    joined,        \* history: part contents at the moment gather returned
    variants,      \* select_variant: the parsed variants, records [idx, res]
    preferred,     \* main.preferred_resolution as an integer, NoPreference when unset
    choice,        \* select_variant: the last input read at the prompt
    selected,      \* select_variant: the variant returned
    spc,           \* select_variant: "idle" | "start" | "prompt" | "returned" | "crashed"
    asked,         \* history: inputs read at the prompt so far
    master,        \* parse_variants: the variant streams of the master manifest
    byLibrary,     \* parse_variants: the list returned when m3u8 was imported
    byFallback,    \* parse_variants: the list returned when it was not
    parsed,        \* which of the two strategies have run
    probeErr       \* the requests before the fetch phase that raised

vars == <<mode, mp4_conn, max_conn, srcLen, hasLength, honoursRange, segments,
          pc, total, parts, ustate, attempt, phase, wpos, acquired, files,
          completed, doneOrder, mi, mphase, rpos, li, proc, rc, merged, joined,
          variants, preferred, choice, selected, spc, asked,
          master, byLibrary, byFallback, parsed, probeErr>>

\* ----------------------------------------------------------------- helpers
Min(a, b) == IF a < b THEN a ELSE b
Max(a, b) == IF a > b THEN a ELSE b

\* Python's floor division a // b for b # 0
FloorDiv(a, b) ==
    IF b > 0 THEN a \div b
    ELSE LET q == (0 - a) \div (0 - b) IN q

\* a byte is <<url, offset>>: the resource it came from and its place there
ZeroByte == <<<<"", "", "">>, 0>>

\* paths of the output directory are <<stem, extension, number>>
\* os.path.join(output_dir, f"{base}.part{i}"), dl.py:208
PartPath(i) == <<"video", "part", i>>
\* os.path.join(output_dir, f"{base}.mp4"), dl.py:224
FinalPath == <<"video", "mp4", 0>>
\* os.path.join(output_dir, "segments.txt"), dl.py:272
ListPath == <<"segments", "txt", 0>>
\* os.path.basename(seg), dl.py:264 and 275: the directory of the URL is dropped
Basename(seg) == <<seg[2], seg[3], 0>>

Mp4Url == <<"src", "video", "mp4">>

\* the segment URLs of the playlists explored, in playlist order: two names out
\* of alphabetical order, and one name served from two directories
Playlist == <<<<"d1", "b", "ts">>, <<"d1", "a", "ts">>, <<"d2", "a", "ts">>>>

\* media manifests explored: every run of up to MaxSegs consecutive playlist entries
Manifests ==
    {SubSeq(Playlist, w[1], w[1] + w[2] - 1) :
        w \in {x \in (1..Len(Playlist)) \X (0..MaxSegs) : x[1] + x[2] - 1 <= Len(Playlist)}}

Units == 1..Len(parts)
Terminal(u) == ustate[u] \in {"Succeeded", "Failed"}

\* ------------------------------------------------------------ range planner
\* a planner whose last unit does not absorb the remainder
PlanUnitNoRemainder(tot, k, i) ==
    LET part_sz == FloorDiv(tot, k)
        s == i * part_sz
    IN [s |-> s, e |-> s + part_sz - 1, pf |-> PartPath(i), url |-> Mp4Url]

\* a planner whose inner units end one byte late
PlanUnitLateEnd(tot, k, i) ==
    LET part_sz == FloorDiv(tot, k)
        s == i * part_sz
        e == IF i < k - 1 THEN s + part_sz ELSE tot - 1
    IN [s |-> s, e |-> e, pf |-> PartPath(i), url |-> Mp4Url]

\* main, dl.py:202-209: the (s, e, pf) tuple of loop index i
PlanUnit(tot, k, i) ==
    LET part_sz == FloorDiv(tot, k)
        s == i * part_sz
        e == IF i < k - 1 THEN s + part_sz - 1 ELSE tot - 1
    IN [s |-> s, e |-> e, pf |-> PartPath(i), url |-> Mp4Url]

\* for i in range(mp4_conn): parts.append(...)   (range(k) is empty for k <= 0)
RangePlan(tot, k) == [j \in 1..Max(k, 0) |-> PlanUnit(tot, k, j - 1)]

\* segment mode, dl.py:245-266: sizes from the HEAD probes, one unit per segment
ContentLength == IF hasLength THEN srcLen ELSE 0
SegmentPlan(segs) ==
    [j \in 1..Len(segs) |->
        [s |-> 0, e |-> ContentLength - 1, pf |-> Basename(segs[j]), url |-> segs[j]]]

\* ---------------------------------------------------------------- the server
\* what a successful response to unit u's request carries: the requested range
\* from a server that honours it, the whole resource when the Range header is
\* ignored (a server without range support, or last-byte-pos < first-byte-pos)
Body(u) ==
    LET p == parts[u] IN
    IF honoursRange /\ p.s <= p.e
      THEN [j \in 1..(Min(p.e, srcLen - 1) - p.s + 1) |-> <<p.url, p.s + j - 1>>]
      ELSE [j \in 1..srcLen |-> <<p.url, j - 1>>]

\* a valid range that starts at or after the end is answered 416
Satisfiable(u) ==
    LET p == parts[u] IN ~(honoursRange /\ p.s <= p.e /\ p.s >= srcLen)

\* ------------------------------------------------------------- file system
Exists(path) == path \in DOMAIN files
\* open(path, 'wb'): create or truncate
Truncated(fs, path) == [q \in DOMAIN fs \cup {path} |-> IF q = path THEN <<>> ELSE fs[q]]
\* os.remove(path)
Removed(fs, path) == [q \in DOMAIN fs \ {path} |-> fs[q]]
\* write(chunk) through a handle whose offset is pos; a gap reads back as zeros
WriteAt(content, pos, chunk) ==
    [j \in 1..Max(Len(content), pos + Len(chunk)) |->
        IF j > pos /\ j <= pos + Len(chunk) THEN chunk[j - pos]
        ELSE IF j <= Len(content) THEN content[j]
        ELSE ZeroByte]

\* ------------------------------------------------------------------- Init
\* the state of a run before its first step, whatever the output directory holds
InitRun ==
    /\ pc = "start"
    /\ probeErr = {}
    /\ total = 0
    /\ parts = <<>>
    /\ ustate = <<>>
    /\ attempt = <<>>
    /\ phase = <<>>
    /\ wpos = <<>>
    /\ acquired = 0
    /\ completed = 0
    /\ doneOrder = <<>>
    /\ mi = 0
    /\ mphase = "none"
    /\ rpos = 0
    /\ li = 0
    /\ proc = "none"
    /\ rc = 0
    /\ merged = 0
    /\ joined = [q \in {} |-> <<>>]

\* a run that starts with an empty output directory
InitJob ==
    /\ InitRun
    /\ files = [q \in {} |-> <<>>]

\* getattr(main, "preferred_resolution", None), dl.py:124
NoPreference == 0 - 1
\* no variant returned yet
NoVariant == [idx |-> 0, res |-> <<>>]

\* select_variant has not been called
SelectIdle ==
    /\ variants = <<>>
    /\ preferred = NoPreference
    /\ choice = ""
    /\ selected = NoVariant
    /\ spc = "idle"
    /\ asked = 0

\* parse_variants has not been called
ParseIdle ==
    /\ master = <<>>
    /\ byLibrary = <<>>
    /\ byFallback = <<>>
    /\ parsed = {}

Init ==
    /\ mode \in {"mp4", "hls"}
    /\ mp4_conn \in IF mode = "mp4" THEN (0 - 1)..MaxK ELSE {1}
    /\ segments \in IF mode = "hls" THEN Manifests ELSE {<<>>}
    /\ max_conn \in 1..MaxConn
    /\ srcLen \in 0..MaxTotal
    /\ hasLength \in BOOLEAN
    \* without a content-length every planned range is invalid and ignored, so
    \* range support makes no difference there
    /\ honoursRange \in IF hasLength THEN BOOLEAN ELSE {TRUE}
    /\ InitJob
    /\ SelectIdle
    /\ ParseIdle

selectVars == <<variants, preferred, choice, selected, spc, asked>>
parseVars == <<master, byLibrary, byFallback, parsed>>
input == <<mode, mp4_conn, max_conn, srcLen, hasLength, honoursRange, segments,
           selectVars, parseVars>>
env == <<input, probeErr>>
unitVars == <<ustate, attempt, phase, wpos, acquired, completed, doneOrder>>
mergeVars == <<mi, mphase, rpos, li, proc, rc, merged, joined>>

\* ------------------------------------------------------------------- main
\* the requests main awaits before the fetch phase, as <<kind, number>>
HeadProbe == <<"head", 0>>
MasterFetch == <<"master", 0>>
MediaFetch == <<"media", 0>>
SegmentProbe(i) == <<"segment", i>>

\* The sets of those requests that can raise in one run (raise_for_status, a
\* transport error or a timeout, dl.py:50-58).  Range-split mode: the HEAD
\* probe of dl.py:198.  Segment mode: the master manifest fetch of dl.py:233
\* (nothing is requested after it), the media playlist fetch of dl.py:244
\* (no probe is sent), or any of the HEAD probes gathered at dl.py:246.
ProbeOutcomes ==
    IF mode = "mp4" THEN {{}, {HeadProbe}}
    ELSE {{}, {MasterFetch}, {MediaFetch}}
         \cup {{SegmentProbe(i) : i \in S} : S \in (SUBSET (1..Len(segments))) \ {{}}}

\* a main that goes on when at least one size probe has answered
StartOkIfSomeProbe(errs) ==
    \/ errs = {}
    \/ /\ MasterFetch \notin errs
       /\ MediaFetch \notin errs
       /\ \E i \in 1..Len(segments) : SegmentProbe(i) \notin errs
\* dl.py:198, 233, 244, 246: every one of these is awaited without try/except,
\* and gather re-raises the first exception of a probe; main goes on only if
\* none raised
StartOk(errs) == errs = {}

\* dl.py:198: total = await get_content_length(session, source_url)
ProbeOk ==
    /\ pc = "start"
    /\ mode = "mp4"
    /\ \E errs \in ProbeOutcomes :
         /\ StartOk(errs)
         /\ probeErr' = errs
    /\ total' = ContentLength
    /\ pc' = "plan"
    /\ UNCHANGED <<input, parts, unitVars, files, mergeVars>>

\* dl.py:57, 52: raise_for_status or a transport error leaves main as an exception
ProbeFail ==
    /\ pc = "start"
    /\ \E errs \in ProbeOutcomes :
         /\ ~StartOk(errs)
         /\ probeErr' = errs
    /\ pc' = "crashed"
    /\ UNCHANGED <<input, total, parts, unitVars, files, mergeVars>>

\* the coroutines handed to gather, none started yet
Launch(plan) ==
    /\ parts' = plan
    /\ ustate' = [u \in 1..Len(plan) |-> "Pending"]
    /\ attempt' = [u \in 1..Len(plan) |-> 0]
    /\ phase' = [u \in 1..Len(plan) |-> "none"]
    /\ wpos' = [u \in 1..Len(plan) |-> 0]
    /\ pc' = "fetch"

\* dl.py:202-221: part_sz, the parts list, the gather call
Plan ==
    /\ pc = "plan"
    /\ mp4_conn # 0
    /\ Launch(RangePlan(total, mp4_conn))
    /\ UNCHANGED <<env, total, acquired, completed, doneOrder, files, mergeVars>>

\* dl.py:202: total // 0 raises ZeroDivisionError
PlanCrash ==
    /\ pc = "plan"
    /\ mp4_conn = 0
    /\ pc' = "crashed"
    /\ UNCHANGED <<env, total, parts, unitVars, files, mergeVars>>

\* dl.py:233-267: manifests fetched, sizes probed, one download_chunk per segment
SegmentProbeOk ==
    /\ pc = "start"
    /\ mode = "hls"
    /\ \E errs \in ProbeOutcomes :
         /\ StartOk(errs)
         /\ probeErr' = errs
    /\ total' = Len(segments) * ContentLength
    /\ Launch(SegmentPlan(segments))
    /\ UNCHANGED <<input, acquired, completed, doneOrder, files, mergeVars>>

\* ---------------------------------------------------------- download_chunk
\* aiohttp.TCPConnector(limit=max_conn), dl.py:192: a request waits while the
\* connector has handed out max_conn connections
\* a connector that never makes a request wait
ConnUnlimited == TRUE

ConnAvailable == acquired < max_conn

\* a loop that gives up after the first failure
AfterFailureNoRetry(a) == "Failed"

\* a loop that runs one attempt too many
AfterFailureExtraAttempt(a) == IF a <= RETRIES THEN "Retrying" ELSE "Failed"

\* the outcome of a failed attempt, dl.py:62 and 71-73: the for loop goes on to
\* the next attempt, or ends after attempt RETRIES and the function returns
AfterFailure(a) == IF a < RETRIES THEN "Retrying" ELSE "Failed"

\* a gather that cancels the siblings of a unit that gave up
FailureCancelsSiblings(u) ==
    [v \in Units |->
        IF v = u THEN (IF attempt[u] < RETRIES THEN "Retrying" ELSE "Failed")
        ELSE IF attempt[u] >= RETRIES /\ ustate[v] \notin {"Succeeded", "Failed"}
               THEN "Failed"
        ELSE ustate[v]]

\* what a failing unit does to the gathered coroutines, dl.py:71-73 and 221:
\* the exception is caught inside download_chunk, no sibling is touched
FailureOutcome(u) ==
    [v \in Units |-> IF v = u THEN AfterFailure(attempt[u]) ELSE ustate[v]]

\* dl.py:62-64: the next loop iteration sends the request once a connection is free
Acquire(u) ==
    /\ pc = "fetch"
    /\ ustate[u] \in {"Pending", "Retrying"}
    /\ ConnAvailable
    /\ ustate' = [ustate EXCEPT ![u] = "Fetching"]
    /\ attempt' = [attempt EXCEPT ![u] = @ + 1]
    /\ phase' = [phase EXCEPT ![u] = "request"]
    /\ acquired' = acquired + 1
    /\ UNCHANGED <<env, pc, total, parts, wpos, completed, doneOrder, files, mergeVars>>

\* an attempt that goes on where the previous one stopped
AttemptResume(w) == w
\* dl.py:64-67: every attempt iterates a new response from its first chunk and
\* writes through a new handle, whose offset is 0
AttemptStart(w) == 0

\* dl.py:65-66: a 2xx status, the part file is opened 'wb'
Respond(u) ==
    /\ pc = "fetch"
    /\ ustate[u] = "Fetching"
    /\ phase[u] = "request"
    /\ Satisfiable(u)
    /\ phase' = [phase EXCEPT ![u] = "body"]
    /\ wpos' = [wpos EXCEPT ![u] = AttemptStart(@)]
    /\ files' = Truncated(files, parts[u].pf)
    /\ UNCHANGED <<env, pc, total, parts, ustate, attempt, acquired, completed,
                   doneOrder, mergeVars>>

\* a progress update that sets the count to the chunk length
ProgressSet(c, n) == n
\* dl.py:69: progress.update(task_id, advance=len(chunk))
ProgressAfter(c, n) == c + n

\* dl.py:67-69: one chunk of at most SEGMENT_CHUNK_SIZE bytes is written and counted
WriteChunk(u) ==
    /\ pc = "fetch"
    /\ ustate[u] = "Fetching"
    /\ phase[u] = "body"
    /\ \E n \in 1..MaxChunk :
         /\ wpos[u] + n <= Len(Body(u))
         /\ LET chunk == SubSeq(Body(u), wpos[u] + 1, wpos[u] + n)
                old == IF Exists(parts[u].pf) THEN files[parts[u].pf] ELSE <<>>
            IN files' = [q \in DOMAIN files \cup {parts[u].pf} |->
                            IF q = parts[u].pf THEN WriteAt(old, wpos[u], chunk)
                            ELSE files[q]]
         /\ wpos' = [wpos EXCEPT ![u] = @ + n]
         /\ completed' = ProgressAfter(completed, n)
    /\ UNCHANGED <<env, pc, total, parts, ustate, attempt, phase, acquired,
                   doneOrder, mergeVars>>

\* dl.py:70: the body is exhausted, both context managers exit, return
Finish(u) ==
    /\ pc = "fetch"
    /\ ustate[u] = "Fetching"
    /\ phase[u] = "body"
    /\ wpos[u] = Len(Body(u))
    /\ ustate' = [ustate EXCEPT ![u] = "Succeeded"]
    /\ phase' = [phase EXCEPT ![u] = "none"]
    /\ acquired' = acquired - 1
    /\ doneOrder' = Append(doneOrder, u)
    /\ UNCHANGED <<env, pc, total, parts, attempt, wpos, completed, files, mergeVars>>

\* dl.py:71-73: a non-2xx status, a transport error or a broken body is caught;
\* the connection is given back
Fail(u) ==
    /\ pc = "fetch"
    /\ ustate[u] = "Fetching"
    /\ ustate' = FailureOutcome(u)
    /\ phase' = [phase EXCEPT ![u] = "none"]
    /\ acquired' = acquired - 1
    /\ doneOrder' = IF AfterFailure(attempt[u]) = "Failed"
                      THEN Append(doneOrder, u) ELSE doneOrder
    /\ UNCHANGED <<env, pc, total, parts, attempt, wpos, completed, files, mergeVars>>

\* ------------------------------------------------------------------ gather
\* await asyncio.gather(...), dl.py:221 and 261-267: resumes main once every
\* gathered coroutine has returned
\* a wait that resumes main at the first coroutine to return
GatherFirstCompleted == \E u \in Units : Terminal(u)

GatherReturns == \A u \in Units : Terminal(u)

\* a main that gives up when a gathered download gave up
AfterGatherAbortOnFailure ==
    IF \E u \in Units : ustate[u] = "Failed" THEN "failed"
    ELSE IF mode = "mp4" THEN "merge" ELSE "list"

\* dl.py:221-225 and 267-273: the results of gather are not looked at; the next
\* statement is merge_parts, or the writing of the concat list
AfterGather == IF mode = "mp4" THEN "merge" ELSE "list"

Join ==
    /\ pc = "fetch"
    /\ GatherReturns
    /\ pc' = AfterGather
    /\ joined' = files
    /\ mi' = 1
    /\ mphase' = "out"
    /\ UNCHANGED <<env, total, parts, unitVars, files, rpos, li, proc, rc, merged>>

\* -------------------------------------------------------------- merge_parts
\* a part list built in the order the downloads returned
MergeListByCompletion == [i \in 1..Len(doneOrder) |-> parts[doneOrder[i]].pf]

\* dl.py:225: [pf for _,_,pf in parts]
MergeList == [i \in 1..Len(parts) |-> parts[i].pf]

\* dl.py:76: the final file is opened 'wb'
MergeOpenOut ==
    /\ pc = "merge"
    /\ mphase = "out"
    /\ files' = Truncated(files, FinalPath)
    /\ mphase' = "open"
    /\ UNCHANGED <<env, pc, total, parts, unitVars, mi, rpos, li, proc, rc, merged, joined>>

\* dl.py:78: the next part is opened 'rb'
MergeOpenPart ==
    /\ pc = "merge"
    /\ mphase = "open"
    /\ mi <= Len(MergeList)
    /\ Exists(MergeList[mi])
    /\ mphase' = "copy"
    /\ rpos' = 0
    /\ UNCHANGED <<env, pc, total, parts, unitVars, files, mi, li, proc, rc, merged, joined>>

\* dl.py:78: the part was never created; FileNotFoundError leaves main
MergeMissingPart ==
    /\ pc = "merge"
    /\ mphase = "open"
    /\ mi <= Len(MergeList)
    /\ ~Exists(MergeList[mi])
    /\ pc' = "crashed"
    /\ UNCHANGED <<env, total, parts, unitVars, files, mergeVars>>

\* dl.py:79-80: one read of at most FILE_CHUNK_SIZE bytes is appended to the output
MergeCopy ==
    /\ pc = "merge"
    /\ mphase = "copy"
    /\ rpos < Len(files[MergeList[mi]])
    /\ LET part == files[MergeList[mi]]
           n == Min(FileChunk, Len(part) - rpos)
       IN /\ files' = [files EXCEPT ![FinalPath] = @ \o SubSeq(part, rpos + 1, rpos + n)]
          /\ rpos' = rpos + n
    /\ UNCHANGED <<env, pc, total, parts, unitVars, mi, mphase, li, proc, rc, merged, joined>>

\* dl.py:78-80: opening succeeded, a read of the part or a write to the output
\* raises OSError, which leaves merge_parts and main
MergeIOError ==
    /\ pc = "merge"
    /\ mphase = "copy"
    /\ pc' = "crashed"
    /\ UNCHANGED <<env, total, parts, unitVars, files, mergeVars>>

\* a loop that may be left before the part has been read to its end
CopyCompleteAnytime(part) == TRUE
\* dl.py:79: the while loop ends when read returns b"", at the end of the part
CopyComplete(part) == rpos = Len(part)

\* dl.py:79, 81: read returns b"", the part is removed
MergeRemove ==
    /\ pc = "merge"
    /\ mphase = "copy"
    /\ CopyComplete(files[MergeList[mi]])
    /\ files' = Removed(files, MergeList[mi])
    /\ mi' = mi + 1
    /\ mphase' = "open"
    /\ UNCHANGED <<env, pc, total, parts, unitVars, rpos, li, proc, rc, merged, joined>>

\* dl.py:226: merge_parts returned, "Done" is printed
MergeDone ==
    /\ pc = "merge"
    /\ mphase = "open"
    /\ mi > Len(MergeList)
    /\ pc' = "done"
    /\ mphase' = "none"
    /\ UNCHANGED <<env, total, parts, unitVars, files, mi, rpos, li, proc, rc, merged, joined>>

\* ------------------------------------------------- segment mode: concat list
\* a list written in the order the downloads returned
ListSourceByCompletion == [i \in 1..Len(doneOrder) |-> segments[doneOrder[i]]]

\* dl.py:274: for seg in segments
ListSource == segments

\* dl.py:273: the list file is opened 'w'
ListOpen ==
    /\ pc = "list"
    /\ mphase = "out"
    /\ files' = Truncated(files, ListPath)
    /\ li' = 1
    /\ mphase' = "lines"
    /\ UNCHANGED <<env, pc, total, parts, unitVars, mi, rpos, proc, rc, merged, joined>>

\* dl.py:275-276: one line "file '<basename>'" per segment
ListWrite ==
    /\ pc = "list"
    /\ mphase = "lines"
    /\ li <= Len(ListSource)
    /\ files' = [files EXCEPT ![ListPath] = Append(@, Basename(ListSource[li]))]
    /\ li' = li + 1
    /\ UNCHANGED <<env, pc, total, parts, unitVars, mi, mphase, rpos, proc, rc, merged, joined>>

\* dl.py:287-291: the list is closed and the external merge process is started
SpawnMerge ==
    /\ pc = "list"
    /\ mphase = "lines"
    /\ li > Len(ListSource)
    /\ pc' = "poll"
    /\ mphase' = "none"
    /\ proc' = "running"
    /\ UNCHANGED <<env, total, parts, unitVars, files, mi, rpos, li, rc, merged, joined>>

\* ------------------------------------------- segment mode: external process
MuxByte == <<<<"mux", "", "">>, 0>>

\* the external process writes its output file (its content is opaque here)
ProcWrite ==
    /\ proc = "running"
    /\ ~Exists(FinalPath)
    /\ files' = [q \in DOMAIN files \cup {FinalPath} |->
                    IF q = FinalPath THEN <<MuxByte>> ELSE files[q]]
    /\ UNCHANGED <<env, pc, total, parts, unitVars, mergeVars>>

\* the external process terminates with some exit status
ProcExit ==
    /\ proc = "running"
    /\ proc' = "exited"
    /\ rc' \in {0, 1}
    /\ UNCHANGED <<env, pc, total, parts, unitVars, files, mi, mphase, rpos, li, merged, joined>>

\* a loop that can be left while the process is still running
ProcTerminatedOrNot == TRUE
\* dl.py:301: the negation of `proc.returncode is None`
ProcTerminated == proc = "exited"

\* dl.py:301-304: one turn of the poll loop while returncode is None
Poll ==
    /\ pc = "poll"
    /\ ~ProcTerminated
    /\ merged' = IF Exists(FinalPath) THEN Len(files[FinalPath]) ELSE merged
    /\ UNCHANGED <<env, pc, total, parts, unitVars, files, mi, mphase, rpos, li, proc, rc, joined>>

\* an exit status that is never looked at
MergeOkAlways(status) == TRUE
\* dl.py:309: if rc != 0 ... return
MergeOk(status) == status = 0

\* dl.py:305-311: the loop is left, a last size update, a non-zero status returns
MergeFailed ==
    /\ pc = "poll"
    /\ ProcTerminated
    /\ ~MergeOk(rc)
    /\ merged' = IF Exists(FinalPath) THEN Len(files[FinalPath]) ELSE merged
    /\ pc' = "failed"
    /\ UNCHANGED <<env, total, parts, unitVars, files, mi, mphase, rpos, li, proc, rc, joined>>

\* dl.py:305-325: status 0: every *.ts of the directory and the list file are removed
Cleanup ==
    /\ pc = "poll"
    /\ ProcTerminated
    /\ MergeOk(rc)
    /\ merged' = IF Exists(FinalPath) THEN Len(files[FinalPath]) ELSE merged
    /\ files' = [q \in {r \in DOMAIN files : r[2] # "ts" /\ r # ListPath} |-> files[q]]
    /\ pc' = "done"
    /\ UNCHANGED <<env, total, parts, unitVars, mi, mphase, rpos, li, proc, rc, joined>>

\* ------------------------------------------------------------ specification
Next ==
    \/ ProbeOk
    \/ ProbeFail
    \/ Plan
    \/ PlanCrash
    \/ SegmentProbeOk
    \/ \E u \in Units : Acquire(u)
    \/ \E u \in Units : Respond(u)
    \/ \E u \in Units : WriteChunk(u)
    \/ \E u \in Units : Finish(u)
    \/ \E u \in Units : Fail(u)
    \/ Join
    \/ MergeOpenOut
    \/ MergeOpenPart
    \/ MergeMissingPart
    \/ MergeCopy
    \/ MergeIOError
    \/ MergeRemove
    \/ MergeDone
    \/ ListOpen
    \/ ListWrite
    \/ SpawnMerge
    \/ ProcWrite
    \/ ProcExit
    \/ Poll
    \/ MergeFailed
    \/ Cleanup

Spec == Init /\ [][Next]_vars

\* the range planner alone, swept over totals and unit counts
ExampleTotal == 250000 * 4

InitPlan ==
    /\ mode = "mp4"
    /\ mp4_conn \in 1..PlanMaxK
    /\ segments = <<>>
    /\ max_conn = 1
    /\ srcLen \in (1..PlanMaxTotal) \cup {ExampleTotal}
    /\ hasLength = TRUE
    /\ honoursRange = TRUE
    /\ InitJob
    /\ SelectIdle
    /\ ParseIdle

NextPlan ==
    \/ ProbeOk
    \/ Plan

SpecPlan == InitPlan /\ [][NextPlan]_vars

\* ------------------------------------------------------------------ claims
\* the byte positions a unit asks for
RangeOf(p) == p.s .. p.e
\* the range plan of a single-file job has been made from valid input
Planned == mode = "mp4" /\ pc = "fetch" /\ total > 0 /\ mp4_conn > 0

\* C1: for total > 0 and k > 0 the k planned ranges start at 0, each next range
\* starts right after the previous one ends, no two of them share a byte, and
\* together they are exactly the bytes 0..total-1.
C1_PartitionComplete ==
    Planned =>
        /\ Len(parts) = mp4_conn
        /\ parts[1].s = 0
        /\ \A i \in 1..(Len(parts) - 1) : parts[i + 1].s = parts[i].e + 1
        /\ \A i, j \in Units : i # j => RangeOf(parts[i]) \cap RangeOf(parts[j]) = {}
        /\ UNION {RangeOf(parts[i]) : i \in Units} = 0..(total - 1)

\* a plan of three units whose total is not a multiple of three
C1_Witness == Planned /\ mp4_conn = 3 /\ total = 7

\* C2: units 0..k-2 cover floor(total/k) bytes each, the last unit covers
\* total - (k-1)*floor(total/k) bytes, and total = 1000000 with k = 4 gives
\* [0,249999], [250000,499999], [500000,749999], [750000,999999].
C2_PartitionSizes ==
    Planned =>
        /\ \A i \in 1..(mp4_conn - 1) :
              parts[i].e - parts[i].s + 1 = total \div mp4_conn
        /\ parts[mp4_conn].e - parts[mp4_conn].s + 1
              = total - (mp4_conn - 1) * (total \div mp4_conn)
        /\ (total = 1000000 /\ mp4_conn = 4) =>
              [i \in 1..4 |-> <<parts[i].s, parts[i].e>>]
                 = << <<0, 249999>>, <<250000, 499999>>,
                      <<500000, 749999>>, <<750000, 999999>> >>

\* the spec's example has been planned
C2_Witness == Planned /\ total = 1000000 /\ mp4_conn = 4

\* C3 (as claimed): once the probe has returned a total <= 0, or the unit count
\* is <= 0, the single-file job has aborted: no unit was attempted and no merged
\* output exists.
C3_InvalidInputRejected ==
    (mode = "mp4" /\ pc \notin {"start", "plan"} /\ (total <= 0 \/ mp4_conn <= 0)) =>
        /\ pc = "crashed"
        /\ \A u \in Units : attempt[u] = 0
        /\ ~Exists(FinalPath)

\* C4: a unit ends Failed only with its attempt counter at 3 and with its
\* download_chunk recorded as returned; a unit waiting to retry has failed fewer
\* than 3 times; and main is never left by an exception during the fetch phase.
InSeq(x, q) == \E i \in 1..Len(q) : q[i] = x
C4_RetryBound ==
    /\ \A u \in Units :
          /\ ustate[u] = "Failed" => attempt[u] = RETRIES /\ InSeq(u, doneOrder)
          /\ ustate[u] = "Retrying" => attempt[u] \in 1..(RETRIES - 1)
    /\ (pc = "crashed" /\ Len(parts) > 0) => (mphase \in {"open", "copy"} /\ GatherReturns)

\* a unit has given up while a sibling is still in flight
C4_Witness ==
    /\ pc = "fetch"
    /\ \E u, v \in Units : ustate[u] = "Failed" /\ ustate[v] = "Fetching"

\* C5: a unit only moves Pending -> Fetching, Fetching -> Succeeded,
\* Fetching -> Retrying, Retrying -> Fetching and Fetching -> Failed; its attempt
\* counter grows by one exactly when it enters Fetching and never exceeds 3;
\* Succeeded and Failed are never left; Failed is entered only from the third attempt.
UnitEdges ==
    {<<"Pending", "Fetching">>, <<"Fetching", "Succeeded">>, <<"Fetching", "Retrying">>,
     <<"Retrying", "Fetching">>, <<"Fetching", "Failed">>}
UnitStep(u) ==
    /\ ustate'[u] # ustate[u] => <<ustate[u], ustate'[u]>> \in UnitEdges
    /\ attempt'[u] = IF ustate'[u] = "Fetching" /\ ustate[u] # "Fetching"
                       THEN attempt[u] + 1 ELSE attempt[u]
    /\ attempt'[u] <= RETRIES
    /\ (ustate[u] # "Failed" /\ ustate'[u] = "Failed") => attempt[u] = RETRIES
C5_UnitStateMachine ==
    [][/\ \A u \in DOMAIN ustate \cap DOMAIN ustate' : UnitStep(u)
       /\ \A u \in DOMAIN ustate' \ DOMAIN ustate :
             ustate'[u] = "Pending" /\ attempt'[u] = 0]_vars

\* one unit succeeded on its second attempt, another gave up
C5_Witness ==
    \E u, v \in Units : /\ ustate[u] = "Succeeded" /\ attempt[u] = 2
                        /\ ustate[v] = "Failed"

\* C6: main is past the gather, and any reassembly artefact (the merged file,
\* the concat list, the external process) exists, only when every unit is
\* Succeeded or Failed.
Reassembling == pc \in {"merge", "list", "poll", "done", "failed"}
C6_JoinBarrier ==
    (\/ Reassembling
     \/ (pc = "crashed" /\ Len(parts) > 0)
     \/ Exists(FinalPath)
     \/ Exists(ListPath)
     \/ proc # "none")
        => \A u \in Units : Terminal(u)

\* merge_parts is running over a job with a succeeded and a failed unit
C6_Witness ==
    /\ pc = "merge"
    /\ mphase = "copy"
    /\ \E u, v \in Units : ustate[u] = "Succeeded" /\ ustate[v] = "Failed"

\* C7: the step in which a unit gives up changes no other unit, and once the
\* fetch phase is over every unit is Succeeded or has made its 3 attempts.
C7_SiblingIsolation ==
    [][/\ \A u \in DOMAIN ustate \cap DOMAIN ustate' :
             (ustate[u] # "Failed" /\ ustate'[u] = "Failed") =>
                 \A v \in DOMAIN ustate \ {u} :
                     /\ ustate'[v] = ustate[v]
                     /\ attempt'[v] = attempt[v]
                     /\ phase'[v] = phase[v]
                     /\ wpos'[v] = wpos[v]
       /\ pc' # "fetch" =>
             \A u \in DOMAIN ustate' :
                 \/ ustate'[u] = "Succeeded"
                 \/ ustate'[u] = "Failed" /\ attempt'[u] = RETRIES]_vars

\* unit 1 gave up first and unit 2 went on to succeed after it
C7_Witness ==
    /\ Len(parts) = 2
    /\ doneOrder = <<1, 2>>
    /\ ustate[1] = "Failed"
    /\ ustate[2] = "Succeeded"

\* C8: during the fetch phase the units with a request in flight are never more
\* than max_conn, and they are exactly the connections the connector has handed out.
InFlight == {u \in Units : ustate[u] = "Fetching"}
RECURSIVE ConcatParts(_, _)
ConcatParts(fs, n) ==
    IF n = 0 THEN <<>> ELSE ConcatParts(fs, n - 1) \o fs[parts[n].pf]
C9_MergeOrder ==
    (mode = "mp4" /\ pc = "done") =>
        /\ Exists(FinalPath)
        /\ files[FinalPath] = ConcatParts(joined, Len(parts))

\* the job is done, unit 2 returned before unit 1, and both parts held bytes
C9_Witness ==
    /\ mode = "mp4"
    /\ pc = "done"
    /\ doneOrder = <<2, 1>>
    /\ \A u \in Units : Len(joined[parts[u].pf]) > 0

\* C10: once the external merge has been started the concat list has one line
\* per segment of the media manifest, naming the segments' files in manifest
\* order; while it is being written it is a prefix of that.
ListLines == [i \in 1..Len(segments) |-> Basename(segments[i])]
C10_ListOrder ==
    /\ (mode = "hls" /\ Exists(ListPath)) =>
          /\ Len(files[ListPath]) <= Len(segments)
          /\ files[ListPath] = SubSeq(ListLines, 1, Len(files[ListPath]))
    /\ (mode = "hls" /\ pc \in {"poll", "failed"}) =>
          /\ Exists(ListPath)
          /\ files[ListPath] = ListLines

\* the merge was started over two differently named segments whose downloads
\* returned in reverse order
C10_Witness ==
    /\ mode = "hls"
    /\ pc = "poll"
    /\ Len(segments) = 2
    /\ Basename(segments[1]) # Basename(segments[2])
    /\ doneOrder = <<2, 1>>

\* C11 (as claimed): after a successful reassembly no part file of the unit list
\* is left; after a job in which a unit failed, a failed unit's part file is
\* still on disk; after a failed external merge the parts the merge was given
\* are still on disk.
FailedUnits == {u \in Units : ustate[u] = "Failed"}
JobEnded == pc \in {"done", "failed"} \/ (pc = "crashed" /\ Len(parts) > 0)
C11_Cleanup ==
    /\ (pc = "done" /\ FailedUnits = {}) => \A u \in Units : ~Exists(parts[u].pf)
    /\ (JobEnded /\ FailedUnits # {}) => \E u \in FailedUnits : Exists(parts[u].pf)
    /\ pc = "failed" => \A q \in DOMAIN joined : Exists(q)

\* C12 (as claimed): two different units of a job never have the same
\* destination path.
C12_UniqueDestinations ==
    \A u, v \in Units : u # v => parts[u].pf # parts[v].pf


\* ---------------------------------------------------------------------------
\* select_variant (dl.py:108-166)
\* ---------------------------------------------------------------------------

\* v["res"] is "WxH" (the fields <<W, H>>) or "unknown" (no fields)
HasX(res) == Len(res) = 2
\* _, height = map(int, res.split("x"))
Height(res) == res[2]
Abs(x) == IF x < 0 THEN 0 - x ELSE x

\* the manifest of test_resolution.py: 1080, 720, 480, 360
TestHeights == <<1080, 720, 480, 360>>
\* heights a manifest line may carry; 0 stands for a line without RESOLUTION
HeightChoices == {0, 360, 480, 720, 1080}
Width(h) == (h * 16 + 8) \div 9
\* parse_variants: idx counts from 1, res is "WxH" or "unknown"
VariantsOf(hs) ==
    [i \in 1..Len(hs) |->
        [idx |-> i, res |-> IF hs[i] = 0 THEN <<>> ELSE <<Width(hs[i]), hs[i]>>]]
HeightLists ==
    {TestHeights} \cup UNION {[1..n -> HeightChoices] : n \in 0..MaxVariants}
\* the -r/--resolution values swept
Targets == {360, 600, 720, 900, 1080}

\* str(i) for one-digit i
DigitStr == <<"1", "2", "3", "4", "5", "6", "7", "8", "9">>
Str(i) == DigitStr[i]
\* int(choice) for the strings the prompt accepts
IntOf(c) == IF c = "0" THEN 0 ELSE CHOOSE i \in 1..Len(DigitStr) : DigitStr[i] = c
\* what the user may type
Inputs == {"", "x", "0"} \cup {Str(i) : i \in 1..(MaxVariants + 2)}

\* the first loop: return the first variant whose height equals the target
LastExact(vs, t) ==
    LET S == {i \in 1..Len(vs) : HasX(vs[i].res) /\ Height(vs[i].res) = t}
    IN  IF S = {} THEN 0 ELSE CHOOSE i \in S : \A j \in S : j <= i
FirstExact(vs, t) ==
    LET S == {i \in 1..Len(vs) : HasX(vs[i].res) /\ Height(vs[i].res) = t}
    IN  IF S = {} THEN 0 ELSE CHOOSE i \in S : \A j \in S : i <= j

\* diff = abs(height - target_height)
DistanceSigned(h, t) == h - t
Distance(h, t) == Abs(h - t)
\* if diff < min_diff
ReplacesOnTie(diff, min_diff) == diff <= min_diff
Replaces(diff, min_diff) == diff < min_diff

\* the second loop; best is the index of `closest`, 0 while it is None
\* (min_diff is then float('inf'))
RECURSIVE ClosestScan(_, _, _, _)
ClosestScan(vs, t, i, best) ==
    IF i > Len(vs) THEN best
    ELSE IF /\ HasX(vs[i].res)
            /\ \/ best = 0
               \/ Replaces(Distance(Height(vs[i].res), t),
                           Distance(Height(vs[best].res), t))
         THEN ClosestScan(vs, t, i + 1, i)
         ELSE ClosestScan(vs, t, i + 1, best)

\* return variants[0] when nothing could be parsed
FallbackLast(vs) == Len(vs)
Fallback(vs) == 1

\* index of the variant the preference branch returns; it is outside
\* 1..Len(vs) exactly when variants[0] raises IndexError
PreferredIndex(vs, t) ==
    IF FirstExact(vs, t) # 0 THEN FirstExact(vs, t)
    ELSE IF ClosestScan(vs, t, 1, 0) # 0 THEN ClosestScan(vs, t, 1, 0)
    ELSE Fallback(vs)

\* valid = [str(i) for i in range(1, len(variants)+1)]
ValidChoicesFromZero(vs) == {"0"} \cup {Str(i) : i \in 1..Len(vs)}
ValidChoices(vs) == {Str(i) : i \in 1..Len(vs)}
\* variants[k] with Python's negative indexing; k is in range iff
\* -len <= k < len
PyInRange(vs, k) == (0 - Len(vs)) <= k /\ k < Len(vs)
PyIndex(vs, k) == IF k >= 0 THEN vs[k + 1] ELSE vs[Len(vs) + k + 1]

InitSelect ==
    /\ mode = "hls"
    /\ mp4_conn = 0 - 1
    /\ segments = <<>>
    /\ max_conn = 1
    /\ srcLen = 0
    /\ hasLength = FALSE
    /\ honoursRange = TRUE
    /\ InitJob
    /\ variants \in {VariantsOf(hs) : hs \in HeightLists}
    /\ preferred \in {NoPreference} \cup Targets
    /\ choice = ""
    /\ selected = NoVariant
    /\ spc = "start"
    /\ asked = 0
    /\ ParseIdle

jobVars == <<mode, mp4_conn, max_conn, srcLen, hasLength, honoursRange, segments,
             pc, total, parts, files, unitVars, mergeVars, parseVars, probeErr>>

\* preferred_res is set: exact match, else closest, else variants[0]
SelectPreferred ==
    /\ spc = "start"
    /\ preferred # NoPreference
    /\ LET k == PreferredIndex(variants, preferred)
       IN  IF k \in 1..Len(variants)
           THEN selected' = variants[k] /\ spc' = "returned"
           ELSE selected' = NoVariant /\ spc' = "crashed"
    /\ UNCHANGED <<variants, preferred, choice, asked, jobVars>>

\* one pass of `while choice not in valid: choice = Prompt.ask(...)`,
\* followed by the return when the loop ends
PromptInput(c) ==
    /\ spc \in {"start", "prompt"}
    /\ preferred = NoPreference
    /\ asked < MaxPrompts
    /\ choice' = c
    /\ asked' = asked + 1
    /\ IF c \in ValidChoices(variants)
       THEN IF PyInRange(variants, IntOf(c) - 1)
            THEN selected' = PyIndex(variants, IntOf(c) - 1) /\ spc' = "returned"
            ELSE selected' = NoVariant /\ spc' = "crashed"
       ELSE selected' = selected /\ spc' = "prompt"
    /\ UNCHANGED <<variants, preferred, jobVars>>

NextSelect ==
    \/ SelectPreferred
    \/ \E c \in Inputs : PromptInput(c)

SpecSelect == InitSelect /\ [][NextSelect]_vars


\* ---------------------------------------------------------------------------
\* Selection properties
\* ---------------------------------------------------------------------------

TestVariants == VariantsOf(TestHeights)
\* indices of the variants that carry a height
Parseable == {i \in 1..Len(variants) : variants[i].res # <<>>}
HeightAt(i) == variants[i].res[2]
ExactAt == {i \in Parseable : HeightAt(i) = preferred}
DistAt(i) == IF HeightAt(i) >= preferred THEN HeightAt(i) - preferred
             ELSE preferred - HeightAt(i)
ByPreference == spc = "returned" /\ preferred # NoPreference

\* C13: with a preference that some variant's height equals, the variant
\* returned is the exact match of smallest manifest index; preference 1080
\* against 1080, 720, 480, 360 returns the 1080 variant.
C13_ExactMatch ==
    /\ (ByPreference /\ ExactAt # {}) =>
           /\ selected.idx \in ExactAt
           /\ \A j \in ExactAt : selected.idx <= j
           /\ selected = variants[selected.idx]
    /\ (ByPreference /\ variants = TestVariants /\ preferred = 1080) =>
           selected = TestVariants[1]
\* two exact matches, the first of them not at the head of the manifest
C13_Witness ==
    /\ ByPreference
    /\ Cardinality(ExactAt) >= 2
    /\ 1 \notin ExactAt
    /\ selected.idx \in ExactAt

\* C14: with a preference that no height equals and at least one parseable
\* height, the variant returned has a parseable height at minimal distance
\* from the preference, and no equally distant variant precedes it;
\* preference 900 against 1080, 720, 480, 360 returns 1080, tied with 720
\* at distance 180.
C14_Nearest ==
    /\ (ByPreference /\ ExactAt = {} /\ Parseable # {}) =>
           /\ selected.idx \in Parseable
           /\ selected = variants[selected.idx]
           /\ \A j \in Parseable :
                 /\ DistAt(selected.idx) <= DistAt(j)
                 /\ DistAt(j) = DistAt(selected.idx) => selected.idx <= j
    /\ (ByPreference /\ variants = TestVariants /\ preferred = 900) =>
           /\ selected = TestVariants[1]
           /\ DistAt(1) = 180 /\ DistAt(2) = 180
\* a tie at minimal distance between the variant returned and a later one
C14_Witness ==
    /\ ByPreference /\ ExactAt = {}
    /\ variants = TestVariants /\ preferred = 900
    /\ selected.idx = 1
    /\ \E j \in Parseable : j > 1 /\ DistAt(j) = DistAt(1)

Case600 == ByPreference /\ variants = TestVariants /\ preferred = 600
\* C15 (as claimed): preference 600 against 1080, 720, 480, 360 returns 720
\* because 720 is at distance 30 and strictly closer than 480 at distance 120.
C15_StrictlyCloser ==
    Case600 =>
        /\ selected = TestVariants[2]
        /\ DistAt(2) = 30
        /\ DistAt(3) = 120
        /\ DistAt(2) < DistAt(3)
\* C15 (amended): preference 600 against 1080, 720, 480, 360 returns 720;
\* 720 and 480 are both at distance 120, no variant is closer, and 720 is
\* returned because it precedes 480 in the manifest.
C15_TieAt600 ==
    Case600 =>
        /\ selected = TestVariants[2]
        /\ DistAt(2) = 120
        /\ DistAt(3) = 120
        /\ \A j \in Parseable : DistAt(j) >= 120
        /\ \A j \in Parseable : DistAt(j) = 120 => selected.idx <= j
C15_Witness == Case600 /\ selected.idx = 2 /\ HeightAt(selected.idx) = 720

Listed == {DigitStr[i] : i \in 1..Len(variants)}
\* C17: without a preference, the selection returns only on an input that
\* is one of the listed indices 1..N and returns the variant of that index;
\* after an input that is not listed it is still prompting and no variant
\* has been chosen.
C17_Interactive ==
    preferred = NoPreference =>
        /\ spc \in {"start", "prompt", "returned"}
        /\ spc = "returned" =>
              /\ choice \in Listed
              /\ \E i \in 1..Len(variants) :
                    DigitStr[i] = choice /\ selected = variants[i] /\ selected.idx = i
        /\ (asked > 0 /\ choice \notin Listed) =>
              spc = "prompt" /\ selected = NoVariant
        /\ spc = "start" => asked = 0 /\ selected = NoVariant
\* a rejected input followed by an accepted one
C17_Witness ==
    /\ preferred = NoPreference
    /\ spc = "returned"
    /\ asked = 2
    /\ Len(variants) >= 2
    /\ selected.idx = Len(variants)


\* ---------------------------------------------------------------------------
\* External merge status, attempt timeouts, progress
\* ---------------------------------------------------------------------------

MergeExitedNonZero == mode = "hls" /\ proc = "exited" /\ rc # 0
\* C18: in segment mode, once the external merge has exited with a non-zero
\* status the job is never Done: it is waiting to report or has ended Failed,
\* and at Failed the list file and every segment part file are as they were
\* when the fetch phase ended.
C18_MergeFatal ==
    MergeExitedNonZero =>
        /\ pc \in {"poll", "failed"}
        /\ pc = "failed" =>
              /\ Exists(ListPath)
              /\ \A q \in DOMAIN joined : Exists(q) /\ files[q] = joined[q]
\* a failed merge of two segments, both part files and the list file on disk
C18_Witness ==
    /\ MergeExitedNonZero
    /\ pc = "failed"
    /\ Len(segments) = 2
    /\ Exists(ListPath)
    /\ \A u \in Units : Exists(parts[u].pf)

\* The fetch phase of an .mp4 job under the scheduling the program guarantees:
\* the event loop runs every coroutine that is ready, and a request waiting
\* for a connection gets one that is released.  dl.py:64 passes
\* ClientTimeout(total=None) for the range request, which replaces the
\* session timeout of dl.py:192-194, so no step of the program ends an attempt
\* the server leaves unanswered: Respond, WriteChunk, Finish and Fail are the
\* server's and carry no fairness.
InitFetch ==
    /\ mode = "mp4"
    /\ mp4_conn \in 1..MaxK
    /\ segments = <<>>
    /\ max_conn \in 1..MaxConn
    /\ srcLen \in 1..MaxTotal
    /\ hasLength = TRUE
    /\ honoursRange \in BOOLEAN
    /\ InitJob
    /\ SelectIdle
    /\ ParseIdle

NextFetch ==
    \/ ProbeOk
    \/ Plan
    \/ \E u \in Units : Acquire(u)
    \/ \E u \in Units : Respond(u)
    \/ \E u \in Units : WriteChunk(u)
    \/ \E u \in Units : Finish(u)
    \/ \E u \in Units : Fail(u)
    \/ Join

FetchFairness ==
    /\ WF_vars(ProbeOk)
    /\ WF_vars(Plan)
    /\ WF_vars(Join)
    /\ \A u \in 1..MaxK : SF_vars(u \in Units /\ Acquire(u))

SpecFetch == InitFetch /\ [][NextFetch]_vars /\ FetchFairness

\* C19 (as claimed): every attempt is bounded by a timeout, so the fetch phase,
\* once entered, is eventually left with every unit Succeeded or Failed.
C19_FetchCompletes ==
    (pc = "fetch") ~> (pc # "fetch" /\ \A u \in Units : Terminal(u))

\* C20: the completed-byte count never decreases, and a step that raises it by
\* n is a write by one fetching unit of n bytes at its write position in its
\* own part file: that unit's position advances by n, no other unit's position
\* moves and no other file changes.
C20_ProgressMonotone ==
    [][/\ completed' >= completed
       /\ completed' # completed =>
            \E u \in Units :
               LET n == completed' - completed
                   pf == parts[u].pf
               IN  /\ ustate[u] = "Fetching"
                   /\ wpos'[u] = wpos[u] + n
                   /\ \A v \in Units \ {u} : wpos'[v] = wpos[v]
                   /\ pf \in DOMAIN files'
                   /\ Len(files'[pf]) >= wpos'[u]
                   /\ SubSeq(files'[pf], wpos[u] + 1, wpos[u] + n)
                        = SubSeq(Body(u), wpos[u] + 1, wpos[u] + n)
                   /\ \A q \in DOMAIN files \ {pf} :
                        q \in DOMAIN files' /\ files'[q] = files[q]]_vars
\* bytes counted on a second attempt on top of those of the first
C20_Witness ==
    \E u \in Units :
        /\ pc = "fetch"
        /\ ustate[u] = "Fetching"
        /\ attempt[u] >= 2
        /\ wpos[u] > 0
        /\ completed > wpos[u]


\* ---------------------------------------------------------------------------
\* Reassembly
\* ---------------------------------------------------------------------------

\* C21: the step that ends a fetch phase in which a unit is Failed takes the
\* job to its reassembly step: merge_parts in range-split mode, the concat
\* list (followed by the external merge) in segment mode.
C21_ReassemblyDespiteFailure ==
    [][(pc = "fetch" /\ pc' # "fetch" /\ FailedUnits # {}) =>
          /\ pc' = (IF mode = "mp4" THEN "merge" ELSE "list")
          /\ mphase' = "out"
          /\ mi' = 1]_vars
\* the external merge running, or merge_parts past its first part, after a
\* fetch phase in which a unit gave up
C21_Witness ==
    /\ FailedUnits # {}
    /\ \/ mode = "hls" /\ proc = "running"
       \/ mode = "mp4" /\ pc = "merge" /\ mi = 2


\* C22 (as claimed): a unit that has succeeded on its second or third attempt
\* has, for the rest of the fetch phase, a part file holding exactly the body
\* of the successful attempt.
C22_RetryFromStart ==
    \A u \in Units :
        (pc = "fetch" /\ ustate[u] = "Succeeded" /\ attempt[u] >= 2) =>
            /\ Exists(parts[u].pf)
            /\ files[parts[u].pf] = Body(u)
\* the same for the units whose destination no other unit shares
C22_RetryFromStartOwnFile ==
    \A u \in Units :
        (pc = "fetch" /\ ustate[u] = "Succeeded" /\ attempt[u] >= 2
            /\ \A v \in Units \ {u} : parts[v].pf # parts[u].pf) =>
            /\ Exists(parts[u].pf)
            /\ files[parts[u].pf] = Body(u)


\* the last n bytes of the output file
OutTail(fs, n) ==
    SubSeq(fs[FinalPath], Len(fs[FinalPath]) - n + 1, Len(fs[FinalPath]))
\* C23: during merge_parts a part is removed only when it is the current part
\* and the output ends with all of its bytes; the parts are taken one after
\* another and no later part is touched meanwhile; when merge_parts stops with
\* an error every part that was on disk when it started and has not been
\* copied to its end is still on disk, unchanged.
C23_DeleteAfterCopy ==
    [][pc = "merge" =>
          /\ mi' \in {mi, mi + 1}
          /\ \A i \in 1..Len(MergeList) :
                LET q == MergeList[i] IN
                /\ (q \in DOMAIN files /\ q \notin DOMAIN files') =>
                      /\ i = mi
                      /\ mi' = mi + 1
                      /\ Len(files[FinalPath]) >= Len(files[q])
                      /\ OutTail(files, Len(files[q])) = files[q]
                /\ (i > mi /\ q \in DOMAIN joined) =>
                      q \in DOMAIN files' /\ files'[q] = joined[q]
                /\ (pc' = "crashed" /\ i >= mi /\ q \in DOMAIN joined) =>
                      q \in DOMAIN files' /\ files'[q] = joined[q]]_vars
\* merge_parts stopped while copying the second part: the first is gone, the
\* second, not yet read to its end, is on disk
C23_Witness ==
    /\ mode = "mp4"
    /\ pc = "crashed"
    /\ mi = 2
    /\ mphase = "copy"
    /\ ~Exists(MergeList[1])
    /\ Exists(MergeList[2])
    /\ rpos < Len(files[MergeList[2]])


\* ---------------------------------------------------------------------------
\* Segment mode on its own, with an output directory that may already hold a file
\* ---------------------------------------------------------------------------

\* a .ts file of the output directory that is not a destination of the job
OldPath == <<"old", "ts", 0>>
OldByte == <<<<"old", "", "">>, 0>>

InitSegments ==
    /\ mode = "hls"
    /\ mp4_conn = 1
    /\ segments \in Manifests
    /\ max_conn \in 1..MaxConn
    /\ srcLen \in 0..MaxTotal
    /\ hasLength = TRUE
    /\ honoursRange = TRUE
    /\ InitRun
    /\ files \in {[q \in {} |-> <<>>], [q \in {OldPath} |-> <<OldByte>>]}
    /\ SelectIdle
    /\ ParseIdle

NextSegments ==
    \/ SegmentProbeOk
    \/ \E u \in Units : Acquire(u)
    \/ \E u \in Units : Respond(u)
    \/ \E u \in Units : WriteChunk(u)
    \/ \E u \in Units : Finish(u)
    \/ \E u \in Units : Fail(u)
    \/ Join
    \/ ListOpen
    \/ ListWrite
    \/ SpawnMerge
    \/ ProcWrite
    \/ ProcExit
    \/ Poll
    \/ MergeFailed
    \/ Cleanup

\* the event loop resumes main whenever it can go on: after the gather, while
\* writing the list, and when the sleep of the poll loop is over
SegmentsFairness ==
    /\ WF_vars(Join)
    /\ WF_vars(ListOpen)
    /\ WF_vars(ListWrite)
    /\ WF_vars(SpawnMerge)
    /\ WF_vars(MergeFailed)
    /\ WF_vars(Cleanup)

SpecSegments == InitSegments /\ [][NextSegments]_vars /\ SegmentsFairness


JobOver == pc \in {"done", "failed"}
\* the size of the output file as a poll would read it
OutSize(fs) == IF FinalPath \in DOMAIN fs THEN Len(fs[FinalPath]) ELSE 0
\* C24: in segment mode main stays in the poll loop while the external process
\* runs, each poll reading the size of the output file; the loop is left only
\* when the process has terminated, to Done on status 0 and to Failed
\* otherwise; a step that creates or changes the output file is a step of the
\* external process and not of main; and the job is over if and only if the
\* process terminates: it is over only after the process has exited, and once
\* the process has exited the job eventually is over.
C24_MergePolling ==
    /\ [][/\ (pc = "poll" /\ pc' # "poll") =>
               /\ proc = "exited"
               /\ pc' = (IF rc = 0 THEN "done" ELSE "failed")
          /\ (pc = "poll" /\ merged' # merged) => merged' = OutSize(files)
          /\ (FinalPath \in DOMAIN files') =>
               \/ FinalPath \in DOMAIN files /\ files'[FinalPath] = files[FinalPath]
               \/ /\ proc = "running"
                  /\ UNCHANGED <<pc, mphase, li, merged, rc, parts, unitVars>>
          /\ JobOver' => proc' = "exited"]_vars
    /\ (proc = "exited") ~> JobOver
\* the poll loop has seen the output grow and the process has then terminated
C24_Witness ==
    /\ JobOver
    /\ proc = "exited"
    /\ merged > 0
    /\ Len(segments) > 0


\* ---------------------------------------------------------------------------
\* parse_variants (dl.py:83-106)
\* ---------------------------------------------------------------------------

\* master manifests of up to MaxStreams variant streams
MaxStreams == 2

\* One variant stream of a master manifest: an #EXT-X-STREAM-INF line and the
\* URI line after it.  An absent attribute is <<>> (codecs: "").  The text of
\* a decimal number is <<whole, digits after the point>>, <<>> for no point:
\* "30" is <<30, <<>>>> and "29.97" is <<29, <<9, 7>>>>.
BandwidthTexts == {<<>>, <<800000>>}
ResolutionTexts == {<<>>, <<1280, 720>>}
FrameRateTexts == {<<>>, <<30, <<>>>>, <<29, <<9, 7>>>>}
CodecTexts == {"", "avc1.640028"}
Streams ==
    [bw : BandwidthTexts, res : ResolutionTexts, fps : FrameRateTexts,
     codecs : CodecTexts, uri : {"v.m3u8"}]
MasterUrl == "https://h/master.m3u8"
\* urljoin(master_url, uri) and pl.absolute_uri
AbsoluteUri(base, uri) == <<base, uri>>

\* "unknown"
Unknown == <<>>
\* float(text) is zero
IsZero(dec) == dec[1] = 0 /\ \A j \in 1..Len(dec[2]) : dec[2][j] = 0
\* str(int(float(text))): the digits after the point are dropped
StrInt(dec) == <<dec[1], <<>>>>

\* dl.py:87-93, one tuple per playlist of the parsed manifest
LibraryVariant(i, st) ==
    [idx    |-> i,
     bw     |-> IF st.bw = <<>> THEN 0 ELSE st.bw[1],
     res    |-> IF st.res = <<>> THEN Unknown ELSE st.res,
     fps    |-> IF st.fps = <<>> \/ IsZero(st.fps) THEN Unknown ELSE StrInt(st.fps),
     codecs |-> IF st.codecs = "" THEN "unknown" ELSE st.codecs,
     uri    |-> AbsoluteUri(MasterUrl, st.uri)]
LibraryParse(m) == [i \in 1..Len(m) |-> LibraryVariant(i, m[i])]

\* dl.py:95-105, one tuple per #EXT-X-STREAM-INF line followed by a URI; the
\* regular expressions return the text of the attribute as written
FallbackVariant(i, st) ==
    [idx    |-> i,
     bw     |-> IF st.bw = <<>> THEN 0 ELSE st.bw[1],
     res    |-> IF st.res = <<>> THEN Unknown ELSE st.res,
     fps    |-> IF st.fps = <<>> THEN Unknown ELSE st.fps,
     codecs |-> IF st.codecs = "" THEN "unknown" ELSE st.codecs,
     uri    |-> AbsoluteUri(MasterUrl, st.uri)]
FallbackParse(m) == [i \in 1..Len(m) |-> FallbackVariant(i, m[i])]

InitParse ==
    /\ mode = "hls"
    /\ mp4_conn = 1
    /\ segments = <<>>
    /\ max_conn = 1
    /\ srcLen = 0
    /\ hasLength = FALSE
    /\ honoursRange = TRUE
    /\ InitJob
    /\ SelectIdle
    /\ master \in UNION {[1..n -> Streams] : n \in 0..MaxStreams}
    /\ byLibrary = <<>>
    /\ byFallback = <<>>
    /\ parsed = {}

\* parse_variants with the m3u8 module imported
ParseWithLibrary ==
    /\ "library" \notin parsed
    /\ byLibrary' = LibraryParse(master)
    /\ parsed' = parsed \cup {"library"}
    /\ UNCHANGED <<master, byFallback, selectVars, mode, mp4_conn, max_conn, srcLen,
                   hasLength, honoursRange, segments, pc, total, parts, files,
                   unitVars, mergeVars, probeErr>>

\* parse_variants without it
ParseWithFallback ==
    /\ "fallback" \notin parsed
    /\ byFallback' = FallbackParse(master)
    /\ parsed' = parsed \cup {"fallback"}
    /\ UNCHANGED <<master, byLibrary, selectVars, mode, mp4_conn, max_conn, srcLen,
                   hasLength, honoursRange, segments, pc, total, parts, files,
                   unitVars, mergeVars, probeErr>>

NextParse == ParseWithLibrary \/ ParseWithFallback

SpecParse == InitParse /\ [][NextParse]_vars

\* C25 (as claimed): once both strategies have parsed the same master
\* manifest, the two lists of variant tuples are equal.
C25_ParserParity ==
    parsed = {"library", "fallback"} => byLibrary = byFallback


\* ---------------------------------------------------------------------------
\* Range plans of small files, progress totals, end-to-end content
\* ---------------------------------------------------------------------------

\* C26 (as claimed): for total > 0 and k > 0 every planned unit has
\* 0 <= start <= end <= total - 1.
C26_RangesWellFormed ==
    Planned =>
        \A u \in Units :
            /\ 0 <= parts[u].s
            /\ parts[u].s <= parts[u].e
            /\ parts[u].e <= total - 1

\* the probes returned the true lengths, the server honours ranges and every
\* planned range is a valid one: each unit's body is exactly its share of total
ExactBodies ==
    /\ hasLength
    /\ honoursRange
    /\ \A u \in Units : parts[u].s <= parts[u].e
\* C27 (as claimed): during the fetch phase the completed-byte count is at
\* most the total number of bytes expected, whatever attempts failed and were
\* retried.
C27_ProgressWithinTotal ==
    (pc = "fetch" /\ ExactBodies) => completed <= total

\* bytes 0..n-1 of the source
SourceBytes(n) == [j \in 1..n |-> <<Mp4Url, j - 1>>]
\* C28 (as claimed): a single-file job with total > 0, k > 0, a server that
\* honours ranges and every unit Succeeded never stops in merge_parts for a
\* missing part, and when it is Done the output file is bytes 0..total-1 of
\* the source and no part file is left.
C28_EndToEnd ==
    (/\ mode = "mp4" /\ total > 0 /\ mp4_conn > 0 /\ honoursRange
     /\ Len(parts) > 0
     /\ \A u \in Units : ustate[u] = "Succeeded") =>
        /\ (pc = "crashed" => mphase = "copy")
        /\ pc = "done" =>
              /\ Exists(FinalPath)
              /\ Len(files[FinalPath]) = total
              /\ files[FinalPath] = SourceBytes(total)
              /\ \A u \in Units : ~Exists(parts[u].pf)
\* the same for the jobs whose file is at least as long as the unit count
C28_EndToEndAtLeastK ==
    (/\ mode = "mp4" /\ total >= mp4_conn /\ mp4_conn > 0 /\ honoursRange
     /\ Len(parts) > 0
     /\ \A u \in Units : ustate[u] = "Succeeded") =>
        /\ (pc = "crashed" => mphase = "copy")
        /\ pc = "done" =>
              /\ Exists(FinalPath)
              /\ files[FinalPath] = SourceBytes(total)
              /\ \A u \in Units : ~Exists(parts[u].pf)


\* the paths the job writes: its part files, its list file, its output file
JobPaths == {parts[u].pf : u \in Units} \cup {ListPath, FinalPath}
\* C29 (as claimed): in segment mode no step removes or changes a file of the
\* output directory that is not one of the job's own paths; in particular
\* such a file is still there after the cleanup.
C29_CleanupFrame ==
    [][\A q \in DOMAIN files :
          (mode = "hls" /\ pc # "start" /\ q \notin JobPaths) =>
              q \in DOMAIN files' /\ files'[q] = files[q]]_vars

\* C30 (as claimed): with no variants, select_variant ends with an error as
\* soon as it acts: it neither returns a variant nor prompts.
C30_EmptyVariants ==
    (Len(variants) = 0 /\ spc \notin {"idle", "start"}) => spc = "crashed"


\* ---------------------------------------------------------------------------
\* Failures before the fetch phase
\* ---------------------------------------------------------------------------

\* C31: when the size probe of range-split mode, or in segment mode a manifest
\* fetch or the size probe of any segment, has failed, the job is aborted: no
\* unit exists, so no download attempt is made, nothing has been counted, and
\* no part file, list file or merged output has been created.
C31_ProbeFailureAborts ==
    probeErr # {} =>
        /\ pc = "crashed"
        /\ Len(parts) = 0
        /\ acquired = 0 /\ completed = 0 /\ doneOrder = <<>>
        /\ proc = "none"
        /\ ~Exists(FinalPath)
        /\ ~Exists(ListPath)
        /\ \A i \in 1..Len(segments) : ~Exists(Basename(segments[i]))
        /\ \A i \in 0..(Max(mp4_conn, 0) - 1) : ~Exists(PartPath(i))
\* the probe of the second of two segments failed, the first one answered
C31_Witness ==
    /\ mode = "hls"
    /\ Len(segments) = 2
    /\ probeErr = {SegmentProbe(2)}
    /\ pc = "crashed"

====
